---- MODULE Spec2Model ----
(***************************************************************************)
(* Model of the Linux-specific configuration surface of `Command`          *)
(* (src/linux.rs): allow_daemonize, set_parent_death_signal, chroot_dir,   *)
(* pivot_root, unshare and enable_child_signal.                            *)
(*                                                                         *)
(* A path is modelled by its raw text split at every '/' separator: the    *)
(* string "/a/b" is <<"", "a", "b">>, "/" is <<"", "">>, "a//b" is         *)
(* <<"a", "", "b">> and the empty string is <<"">>.  Path::is_absolute and *)
(* Path::components are computed on that text as the standard library      *)
(* computes them on Unix.                                                  *)
(*                                                                         *)
(* Option<T> is a sequence of length at most one: None is <<>>, Some(x)    *)
(* is <<x>>.                                                               *)
(*                                                                         *)
(* A method call is two steps: the caller presents the arguments (Call),   *)
(* then the method body runs to completion in one step.  A panic leaves    *)
(* the object as the body left it before the panic!() and records the      *)
(* panic message in `outcome`.                                             *)
(***************************************************************************)
EXTENDS Naturals, Sequences, FiniteSets

VARIABLES
    namespaces,   \* self.config.namespaces: the set of CLONE_NEW* flags
    pivot_root,   \* self.pivot_root: Option<(PathBuf, PathBuf, bool)>
    chroot_dir,   \* self.chroot_dir: Option<PathBuf>
    death_sig,    \* self.config.death_sig: Option<SigNum>
    sigchld,      \* self.config.sigchld: bool
    pending,      \* the call whose body has not run yet
    outcome,      \* how the last call ended: "none", "ok" or a panic message
    requested,    \* history: the namespace kinds passed to unshare so far
    deathLast,    \* history: the last death-signal operation that returned
    childCalled   \* history: enable_child_signal has returned

config == <<namespaces, pivot_root, chroot_dir, death_sig, sigchld>>
history == <<requested, deathLast, childCalled>>
vars == <<namespaces, pivot_root, chroot_dir, death_sig, sigchld,
          pending, outcome, requested, deathLast, childCalled>>

----------------------------------------------------------------------------
(* Bounds and input sets *)

MaxSegs == 3
MaxIter == 2

SIGKILL == 9

Segs == {"", "a", "b"}

Paths == UNION {[1..k -> Segs] : k \in 1..MaxSegs}

PathsFew == {<<"", "a">>, <<"b">>}

Namespace == {"Mount", "Uts", "Ipc", "User", "Pid", "Net"}

Iters == UNION {[1..k -> Namespace] : k \in 0..MaxIter}

ItersFew == {<<"Pid", "Net">>}

Sigs == {0, SIGKILL, 15}

SigsFew == {15}

None == <<>>
Some(x) == <<x>>

NoCall == [op |-> "none", args |-> <<>>]

----------------------------------------------------------------------------
(* std::path on Unix *)

IsAbsolute(p) == Len(p) >= 2 /\ p[1] = ""

RECURSIVE SegComponents(_, _, _)
SegComponents(p, i, rooted) ==
    IF i > Len(p) THEN <<>>
    ELSE LET rest == SegComponents(p, i + 1, rooted)
         IN  IF p[i] = "" THEN rest
             ELSE IF p[i] = "."
                  THEN IF i = 1 /\ ~rooted THEN <<<<"CurDir">>>> \o rest
                       ELSE rest
             ELSE IF p[i] = ".." THEN <<<<"ParentDir">>>> \o rest
             ELSE <<<<"Normal", p[i]>>>> \o rest

Components(p) ==
    IF IsAbsolute(p)
    THEN <<<<"RootDir">>>> \o SegComponents(p, 2, TRUE)
    ELSE SegComponents(p, 1, FALSE)

----------------------------------------------------------------------------
(* Command::pivot_root, Command::chroot_dir *)

\* for (n, o) in new_root.components().zip(old_cmp.by_ref()) { if n != o ..
RECURSIVE ZipMismatch(_, _)
ZipMismatch(ns, os) ==
    IF ns = <<>> THEN FALSE
    ELSE IF os = <<>> THEN FALSE
    ELSE IF Head(ns) # Head(os) THEN TRUE
    ELSE ZipMismatch(Tail(ns), Tail(os))

\* The panic message of each check, None when all pass (the message of the
\* put_old check is written here without its backquotes).
PivotRootPanicNoOldCheck(new_root, put_old) ==
    IF ~IsAbsolute(new_root) THEN Some("New root must be absolute")
    ELSE IF ZipMismatch(Components(new_root), Components(put_old))
         THEN Some("The new_root is not a prefix of put old")
    ELSE None

PivotRootPanic(new_root, put_old) ==
    IF ~IsAbsolute(new_root) THEN Some("New root must be absolute")
    ELSE IF ~IsAbsolute(put_old) THEN Some("The put_old dir must be absolute")
    ELSE IF ZipMismatch(Components(new_root), Components(put_old))
         THEN Some("The new_root is not a prefix of put old")
    ELSE None

PivotValueSwapped(new_root, put_old, unmount) == <<put_old, new_root, unmount>>

PivotValue(new_root, put_old, unmount) == <<new_root, put_old, unmount>>

ChrootDirPanic(dir) ==
    IF ~IsAbsolute(dir) THEN Some("Chroot dir must be absolute") ELSE None

RECURSIVE DropEmptyTail(_)
DropEmptyTail(dir) ==
    IF Len(dir) > 2 /\ dir[Len(dir)] = ""
    THEN DropEmptyTail(SubSeq(dir, 1, Len(dir) - 1))
    ELSE dir

ChrootValueTrimmed(dir) == DropEmptyTail(dir)

ChrootValue(dir) == dir

----------------------------------------------------------------------------
(* Command::unshare *)

FlagOfUtsAsNs(ns) ==
    CASE ns = "Mount" -> "CLONE_NEWNS"
      [] ns = "Uts"   -> "CLONE_NEWNS"
      [] ns = "Ipc"   -> "CLONE_NEWIPC"
      [] ns = "User"  -> "CLONE_NEWUSER"
      [] ns = "Pid"   -> "CLONE_NEWPID"
      [] ns = "Net"   -> "CLONE_NEWNET"

FlagOf(ns) ==
    CASE ns = "Mount" -> "CLONE_NEWNS"
      [] ns = "Uts"   -> "CLONE_NEWUTS"
      [] ns = "Ipc"   -> "CLONE_NEWIPC"
      [] ns = "User"  -> "CLONE_NEWUSER"
      [] ns = "Pid"   -> "CLONE_NEWPID"
      [] ns = "Net"   -> "CLONE_NEWNET"

RECURSIVE UnshareLoopAssign(_, _)
UnshareLoopAssign(flags, iter) ==
    IF iter = <<>> THEN flags
    ELSE UnshareLoopAssign({FlagOf(Head(iter))}, Tail(iter))

\* for ns in iter { self.config.namespaces |= match ns { .. } }
RECURSIVE UnshareLoop(_, _)
UnshareLoop(flags, iter) ==
    IF iter = <<>> THEN flags
    ELSE UnshareLoop(flags \cup {FlagOf(Head(iter))}, Tail(iter))

----------------------------------------------------------------------------
(* Death signal and child signal *)

DeathSigSetNonZero(sig) == IF sig = 0 THEN None ELSE Some(sig)

DeathSigSet(sig) == Some(sig)

SigchldToggled(cur) == ~cur

SigchldEnabled(cur) == TRUE

----------------------------------------------------------------------------
(* The state after construction *)

Init ==
    /\ namespaces = {}
    /\ pivot_root = None
    /\ chroot_dir = None
    /\ death_sig = Some(SIGKILL)
    /\ sigchld = FALSE
    /\ pending = NoCall
    /\ outcome = "none"
    /\ requested = {}
    /\ deathLast = <<"default">>
    /\ childCalled = FALSE

\* the first call made on the new object carries any paths
InitRoot ==
    /\ namespaces = {}
    /\ pivot_root = None
    /\ chroot_dir = None
    /\ death_sig = Some(SIGKILL)
    /\ sigchld = FALSE
    /\ \/ \E n \in Paths, o \in Paths, u \in BOOLEAN :
             pending = [op |-> "pivot_root", args |-> <<n, o, u>>]
       \/ \E d \in Paths :
             pending = [op |-> "chroot_dir", args |-> <<d>>]
    /\ outcome = "none"
    /\ requested = {}
    /\ deathLast = <<"default">>
    /\ childCalled = FALSE

----------------------------------------------------------------------------
(* The caller *)

CallWith(P, I, S) ==
    /\ pending = NoCall
    /\ \/ pending' = [op |-> "allow_daemonize", args |-> <<>>]
       \/ \E s \in S :
             pending' = [op |-> "set_parent_death_signal", args |-> <<s>>]
       \/ \E d \in P :
             pending' = [op |-> "chroot_dir", args |-> <<d>>]
       \/ \E n \in P, o \in P, u \in BOOLEAN :
             pending' = [op |-> "pivot_root", args |-> <<n, o, u>>]
       \/ \E it \in I :
             pending' = [op |-> "unshare", args |-> <<it>>]
       \/ pending' = [op |-> "enable_child_signal", args |-> <<>>]
    /\ UNCHANGED <<config, outcome, history>>

Call == CallWith(PathsFew, Iters, Sigs)

CallRoot == CallWith(PathsFew, ItersFew, SigsFew)

----------------------------------------------------------------------------
(* The method bodies *)

Panic(msg) ==
    /\ outcome' = msg
    /\ pending' = NoCall
    /\ UNCHANGED <<config, history>>

AllowDaemonize ==
    /\ pending.op = "allow_daemonize"
    /\ death_sig' = None
    /\ deathLast' = <<"allow">>
    /\ outcome' = "ok"
    /\ pending' = NoCall
    /\ UNCHANGED <<namespaces, pivot_root, chroot_dir, sigchld,
                   requested, childCalled>>

SetParentDeathSignal ==
    /\ pending.op = "set_parent_death_signal"
    /\ LET sig == pending.args[1]
       IN  /\ death_sig' = DeathSigSet(sig)
           /\ deathLast' = <<"set", sig>>
    /\ outcome' = "ok"
    /\ pending' = NoCall
    /\ UNCHANGED <<namespaces, pivot_root, chroot_dir, sigchld,
                   requested, childCalled>>

ChrootDirClearsPivot ==
    /\ pending.op = "chroot_dir"
    /\ LET dir == pending.args[1]
           p == ChrootDirPanic(dir)
       IN  IF p # None
           THEN Panic(p[1])
           ELSE /\ chroot_dir' = Some(ChrootValue(dir))
                /\ pivot_root' = None
                /\ outcome' = "ok"
                /\ pending' = NoCall
                /\ UNCHANGED <<namespaces, death_sig, sigchld, history>>

ChrootDir ==
    /\ pending.op = "chroot_dir"
    /\ LET dir == pending.args[1]
           p == ChrootDirPanic(dir)
       IN  IF p # None
           THEN Panic(p[1])
           ELSE /\ chroot_dir' = Some(ChrootValue(dir))
                /\ outcome' = "ok"
                /\ pending' = NoCall
                /\ UNCHANGED <<namespaces, pivot_root, death_sig, sigchld,
                               history>>

PivotRoot ==
    /\ pending.op = "pivot_root"
    /\ LET new_root == pending.args[1]
           put_old == pending.args[2]
           unmount == pending.args[3]
           p == PivotRootPanic(new_root, put_old)
       IN  IF p # None
           THEN Panic(p[1])
           ELSE /\ pivot_root' = Some(PivotValue(new_root, put_old, unmount))
                /\ outcome' = "ok"
                /\ pending' = NoCall
                /\ UNCHANGED <<namespaces, chroot_dir, death_sig, sigchld,
                               history>>

Unshare ==
    /\ pending.op = "unshare"
    /\ LET iter == pending.args[1]
       IN  /\ namespaces' = UnshareLoop(namespaces, iter)
           /\ requested' = requested \cup {iter[i] : i \in 1..Len(iter)}
    /\ outcome' = "ok"
    /\ pending' = NoCall
    /\ UNCHANGED <<pivot_root, chroot_dir, death_sig, sigchld,
                   deathLast, childCalled>>

EnableChildSignal ==
    /\ pending.op = "enable_child_signal"
    /\ sigchld' = SigchldEnabled(sigchld)
    /\ childCalled' = TRUE
    /\ outcome' = "ok"
    /\ pending' = NoCall
    /\ UNCHANGED <<namespaces, pivot_root, chroot_dir, death_sig,
                   requested, deathLast>>

Next ==
    \/ Call
    \/ AllowDaemonize
    \/ SetParentDeathSignal
    \/ ChrootDir
    \/ PivotRoot
    \/ Unshare
    \/ EnableChildSignal

NextRoot ==
    \/ CallRoot
    \/ AllowDaemonize
    \/ SetParentDeathSignal
    \/ ChrootDir
    \/ PivotRoot
    \/ Unshare
    \/ EnableChildSignal

Spec == Init /\ [][Next]_vars

SpecRoot == InitRoot /\ [][NextRoot]_vars

----------------------------------------------------------------------------
(* Notions the properties are stated in *)

\* cn is a component-wise prefix of co (equal sequences included)
IsPrefix(cn, co) ==
    /\ Len(cn) <= Len(co)
    /\ \A i \in 1..Len(cn) : cn[i] = co[i]

\* the step is the body of `op` running to completion
Returns(op) == pending.op = op /\ pending'.op = "none"

Range(seq) == {seq[i] : i \in 1..Len(seq)}

FlagsOf(kinds) == {FlagOf(k) : k \in kinds}

KindsOf(flags) == {k \in Namespace : FlagOf(k) \in flags}

PanicMessages ==
    {"Chroot dir must be absolute", "New root must be absolute",
     "The put_old dir must be absolute",
     "The new_root is not a prefix of put old"}

----------------------------------------------------------------------------
(* Properties *)

\* C1: whenever pivot_root runs on two absolute paths whose new_root is not
\* a component-wise prefix of put_old (put_old with fewer components
\* included), the call panics and every field keeps its value.
C1_NonPrefixPivotPanics ==
    [][(/\ Returns("pivot_root")
        /\ IsAbsolute(pending.args[1])
        /\ IsAbsolute(pending.args[2])
        /\ ~IsPrefix(Components(pending.args[1]), Components(pending.args[2])))
       => (outcome' \in PanicMessages /\ UNCHANGED config)]_vars

\* C2: whenever pivot_root runs on two absolute paths whose new_root is a
\* component-wise prefix of put_old, the call succeeds and the stored pivot
\* is exactly (new_root, put_old, unmount), whatever was stored before.
C2_PrefixPivotStored ==
    [][(/\ Returns("pivot_root")
        /\ IsAbsolute(pending.args[1])
        /\ IsAbsolute(pending.args[2])
        /\ IsPrefix(Components(pending.args[1]), Components(pending.args[2])))
       => (/\ outcome' = "ok"
           /\ pivot_root' =
                Some(<<pending.args[1], pending.args[2], pending.args[3]>>))]_vars

\* a pivot with new_root a proper prefix of put_old is stored with
\* unmount set, next to a chroot dir
C2_Witness ==
    /\ outcome = "ok"
    /\ pending = NoCall
    /\ pivot_root # None
    /\ pivot_root[1][3] = TRUE
    /\ pivot_root[1][1] # pivot_root[1][2]
    /\ IsPrefix(Components(pivot_root[1][1]), Components(pivot_root[1][2]))
    /\ Len(Components(pivot_root[1][1])) < Len(Components(pivot_root[1][2]))

\* C3: chroot_dir with a non-absolute dir, and pivot_root with a
\* non-absolute new_root or put_old, panic and change no field; and every
\* path stored in pivot_root or chroot_dir is absolute.
C3_RelativePathPanics ==
    /\ [](/\ (chroot_dir # None => IsAbsolute(chroot_dir[1]))
          /\ (pivot_root # None =>
                 IsAbsolute(pivot_root[1][1]) /\ IsAbsolute(pivot_root[1][2])))
    /\ [][(\/ Returns("chroot_dir") /\ ~IsAbsolute(pending.args[1])
           \/ Returns("pivot_root") /\ ~IsAbsolute(pending.args[1])
           \/ Returns("pivot_root") /\ ~IsAbsolute(pending.args[2]))
          => (outcome' \in PanicMessages /\ UNCHANGED config)]_vars

\* a call was refused for a relative put_old while a pivot and a chroot dir
\* are stored
C3_Witness ==
    /\ outcome = "The put_old dir must be absolute"
    /\ pivot_root # None
    /\ chroot_dir # None

\* C4: chroot_dir with an absolute dir succeeds, whatever pivot is stored,
\* and stores exactly that dir in place of the previous one; when that dir
\* is already the stored one the call changes no field.
C4_ChrootStored ==
    [][(Returns("chroot_dir") /\ IsAbsolute(pending.args[1]))
       => (/\ outcome' = "ok"
           /\ chroot_dir' = Some(pending.args[1])
           /\ (chroot_dir = Some(pending.args[1]) => UNCHANGED config))]_vars

\* a chroot dir written with a trailing separator is stored as written
\* while a pivot is stored
C4_Witness ==
    /\ outcome = "ok"
    /\ pending = NoCall
    /\ pivot_root # None
    /\ chroot_dir # None
    /\ Len(chroot_dir[1]) > 2
    /\ chroot_dir[1][Len(chroot_dir[1])] = ""

\* C5: the namespace set is a function of the set of kinds passed to
\* unshare so far, whatever their order, grouping and repetition; one call
\* adds exactly the flags of the kinds it is given (none for an empty
\* input, nothing new for kinds already there).
C5_UnshareUnion ==
    /\ [](namespaces = FlagsOf(requested))
    /\ [][Returns("unshare")
          => (/\ outcome' = "ok"
              /\ namespaces' = namespaces \cup FlagsOf(Range(pending.args[1])))]_vars

\* Uts, Pid and Net have been unshared and nothing else
C5_Witness ==
    /\ requested = {"Uts", "Pid", "Net"}
    /\ namespaces = {"CLONE_NEWUTS", "CLONE_NEWPID", "CLONE_NEWNET"}
    /\ outcome = "ok"

\* C6: death_sig is None when the last of allow_daemonize and
\* set_parent_death_signal to return was allow_daemonize, Some(sig) when it
\* was set_parent_death_signal(sig); set_parent_death_signal never fails.
C6_LastWriteWins ==
    /\ [](/\ (deathLast = <<"allow">> => death_sig = None)
          /\ (deathLast[1] = "set" => death_sig = Some(deathLast[2])))
    /\ [][Returns("set_parent_death_signal") => outcome' = "ok"]_vars

\* signal 0 was set last and is stored, other operations having run since
C6_Witness ==
    /\ deathLast = <<"set", 0>>
    /\ death_sig = Some(0)
    /\ namespaces # {}
    /\ chroot_dir # None

\* C7: once enable_child_signal has returned, sigchld is true in every
\* later state; no step turns it off.
C7_ChildSignalStays ==
    /\ [](childCalled => sigchld)
    /\ [][sigchld => sigchld']_vars

\* enable_child_signal has returned and a later chroot_dir call panicked
C7_Witness ==
    /\ childCalled
    /\ sigchld
    /\ outcome = "Chroot dir must be absolute"

\* C8: a stored pivot has new_root a component-wise prefix of put_old.
C8_PivotPrefix ==
    pivot_root # None =>
        IsPrefix(Components(pivot_root[1][1]), Components(pivot_root[1][2]))

\* C9: the namespace set holds exactly the kinds passed to unshare so far,
\* and no step removes a flag from it.
C9_NamespacesMonotonic ==
    /\ [](KindsOf(namespaces) = requested)
    /\ [][namespaces \subseteq namespaces']_vars

\* all six kinds are unshared and a later pivot_root call panicked
C9_Witness ==
    /\ requested = Namespace
    /\ Cardinality(namespaces) = 6
    /\ outcome = "New root must be absolute"

\* C10: each operation changes its own field only.
C10_Frame ==
    [][/\ (Returns("unshare") =>
              UNCHANGED <<pivot_root, chroot_dir, death_sig, sigchld>>)
       /\ (Returns("pivot_root") =>
              UNCHANGED <<namespaces, chroot_dir, death_sig, sigchld>>)
       /\ (Returns("chroot_dir") =>
              UNCHANGED <<namespaces, pivot_root, death_sig, sigchld>>)
       /\ (Returns("allow_daemonize") \/ Returns("set_parent_death_signal") =>
              UNCHANGED <<namespaces, pivot_root, chroot_dir, sigchld>>)
       /\ (Returns("enable_child_signal") =>
              UNCHANGED <<namespaces, pivot_root, chroot_dir, death_sig>>)]_vars

\* every field has left its default value
C10_Witness ==
    /\ namespaces # {}
    /\ pivot_root # None
    /\ chroot_dir # None
    /\ death_sig = None
    /\ sigchld
    /\ pending = NoCall

====
